---------------------------- MODULE Spec2Model ----------------------------
(***************************************************************************)
(* A model of the number-format library: the float formats of              *)
(* float_format.py, the two's complement formats of int_format.py and the  *)
(* log-histogram of histogram.py.                                          *)
(*                                                                         *)
(* The library is a set of pure functions.  A state of the model is one    *)
(* call (the operation, the format object and the arguments) together with *)
(* what the call returned or raised.                                       *)
(*                                                                         *)
(* Numbers.  Every finite number the library computes for the formats of   *)
(* this model is a dyadic rational sig * 2^exp that a Python float (an     *)
(* IEEE double) holds exactly, so the float arithmetic of the source is    *)
(* modelled by exact dyadic arithmetic.  A number is a record              *)
(*    [k, ty, sig, exp]                                                    *)
(* with k = "num" (finite, sig odd or sig = exp = 0), "inf" (sig = 1 or    *)
(* -1) or "nan", and ty the Python type ("int" or "float"), which decides  *)
(* how the comparison methods dispatch.  The sign of a float zero is not   *)
(* kept: no operation modelled here can observe it.                        *)
(***************************************************************************)
EXTENDS Integers, Sequences, FiniteSets, TLC

VARIABLES call, ret

vars == <<call, ret>>

---------------------------------------------------------------------------
(* Bounds of the model. *)

\* float formats have 1 .. MaxEWidth exponent bits
MaxEWidth == 2
\* float formats have 1 .. MaxMWidth mantissa bits
MaxMWidth == 3
\* GAQ formats take custom_bias in -1 .. MaxBias
MaxBias == 2
\* integer formats have 1 .. MaxWidth bits
MaxWidth == 4
\* scaled integer formats take scale in 1 .. MaxScale
MaxScale == 3

---------------------------------------------------------------------------
(* Dyadic arithmetic: the exact value of the Python float expressions. *)

RECURSIVE Norm(_, _, _)
Norm(ty, sig, exp) ==
    IF sig = 0 THEN [k |-> "num", ty |-> ty, sig |-> 0, exp |-> 0]
    ELSE IF sig % 2 = 0 THEN Norm(ty, sig \div 2, exp + 1)
    ELSE [k |-> "num", ty |-> ty, sig |-> sig, exp |-> exp]

\* an int object
PyInt(n) == Norm("int", n, 0)
\* float(n) of an int
PyFloat(n) == Norm("float", n, 0)
\* 2 ** e in Python: an int for e >= 0, a float for e < 0
Pow2(e) == [k |-> "num", ty |-> IF e >= 0 THEN "int" ELSE "float", sig |-> 1, exp |-> e]
\* float(x) of a number
ToFloat(x) == [x EXCEPT !.ty = "float"]

Inf(sign) == [k |-> "inf", ty |-> "float", sig |-> sign, exp |-> 0]
NaN == [k |-> "nan", ty |-> "float", sig |-> 0, exp |-> 0]

MinOf(a, b) == IF a <= b THEN a ELSE b
MaxOf(a, b) == IF a >= b THEN a ELSE b

ResTy(a, b) == IF a.ty = "int" /\ b.ty = "int" THEN "int" ELSE "float"

\* a * b of two finite numbers
Mul(a, b) == Norm(ResTy(a, b), a.sig * b.sig, a.exp + b.exp)

\* a + b and a - b of two finite numbers
Add(a, b) ==
    LET m == MinOf(a.exp, b.exp)
    IN  Norm(ResTy(a, b), a.sig * 2^(a.exp - m) + b.sig * 2^(b.exp - m), m)
Sub(a, b) == Add(a, [b EXCEPT !.sig = -b.sig])

\* n / d of two ints, d a power of two: true division, always a float
RECURSIVE Log2Exact(_)
Log2Exact(d) == IF d = 1 THEN 0 ELSE 1 + Log2Exact(d \div 2)
TrueDiv(n, d) == Norm("float", n, -Log2Exact(d))

\* the order of the finite numbers
NumLess(a, b) ==
    LET m == MinOf(a.exp, b.exp)
    IN  a.sig * 2^(a.exp - m) < b.sig * 2^(b.exp - m)

\* == and < of Python numbers (IEEE: NaN is unordered and unequal to all)
ValEq(a, b) ==
    /\ a.k # "nan" /\ b.k # "nan"
    /\ a.k = b.k /\ a.sig = b.sig /\ a.exp = b.exp
ValLess(a, b) ==
    /\ a.k # "nan" /\ b.k # "nan"
    /\ \/ a.k = "inf" /\ a.sig = -1 /\ ~(b.k = "inf" /\ b.sig = -1)
       \/ b.k = "inf" /\ b.sig = 1 /\ ~(a.k = "inf" /\ a.sig = 1)
       \/ a.k = "num" /\ b.k = "num" /\ NumLess(a, b)

IsNumber(x) == x.k \in {"num", "inf", "nan"}
Raised(name) == [k |-> name]
IsError(x) == x.k \in {"AssertionError", "ZeroDivisionError", "OverflowError", "TypeError"}

---------------------------------------------------------------------------
(* float_format.py: the formats. *)

InfEncodingIEEE == "E=1s M=0s"
NanEncodingIEEE == "E=1s M/=0s"
NanEncodingNAI == "E=1s M=1s"
NanEncodingGAQ == "S=1 E=0s M=0s"
NotApplicable == "N/A"
ZeroEncodingIEEE == "S=0/1 E=0s M=0s"
ZeroEncodingGAQ == "S=0 E=0s M=0s"

IEEE754BinaryFormat(e_width, m_width) ==
    [cls |-> "IEEE754BinaryFormat", e_width |-> e_width, m_width |-> m_width,
     custom_bias |-> 0, inf_encoding |-> InfEncodingIEEE,
     nan_encoding |-> NanEncodingIEEE, zero_encoding |-> ZeroEncodingIEEE]

GAQProposedFormat(e_width, m_width, custom_bias) ==
    [cls |-> "GAQProposedFormat", e_width |-> e_width, m_width |-> m_width,
     custom_bias |-> custom_bias, inf_encoding |-> NotApplicable,
     nan_encoding |-> NanEncodingGAQ, zero_encoding |-> ZeroEncodingGAQ]

NAIProposedFormat(e_width, m_width) ==
    [cls |-> "NAIProposedFormat", e_width |-> e_width, m_width |-> m_width,
     custom_bias |-> 0, inf_encoding |-> NotApplicable,
     nan_encoding |-> NanEncodingNAI, zero_encoding |-> ZeroEncodingIEEE]

\* a subclass of IEEE754BinaryFormat that overrides only the encoding tags
TaggedFormat(e_width, m_width, inf, nan, zero) ==
    [cls |-> "IEEE754BinaryFormat", e_width |-> e_width, m_width |-> m_width,
     custom_bias |-> 0, inf_encoding |-> inf,
     nan_encoding |-> nan, zero_encoding |-> zero]

bias(fmt) ==
    IF fmt.cls = "GAQProposedFormat" THEN fmt.custom_bias
    ELSE 2^(fmt.e_width - 1) - 1

min_e(fmt) == 1 - bias(fmt)

max_e(fmt) ==
    LET base == 2^fmt.e_width - 2 - bias(fmt)
    IN  IF fmt.cls \in {"GAQProposedFormat", "NAIProposedFormat"} THEN base + 1
        ELSE base

abs_min_normal(fmt) == ToFloat(Pow2(min_e(fmt)))

abs_min(fmt) == ToFloat(Pow2(min_e(fmt) - fmt.m_width))

IEEE754_abs_max(fmt) ==
    ToFloat(Mul(Pow2(max_e(fmt)), Sub(PyInt(2), Pow2(-fmt.m_width))))

abs_max(fmt) ==
    IF fmt.cls = "NAIProposedFormat"
    THEN ToFloat(Sub(IEEE754_abs_max(fmt), Pow2(max_e(fmt) - fmt.m_width)))
    ELSE IEEE754_abs_max(fmt)

---------------------------------------------------------------------------
(* float_format.py: FloatInstance. *)

e_limit(fmt) == 2^fmt.e_width - 1
m_limit(fmt) == 2^fmt.m_width - 1

\* __post_init__: the three assertions on the fields
FloatFieldsOk(fmt, s, e, m) ==
    /\ s \in {0, 1}
    /\ 0 <= e /\ e <= e_limit(fmt)
    /\ 0 <= m /\ m <= m_limit(fmt)

SignOf(s) == IF s = 0 THEN 1 ELSE -1

_normal_val(fmt, s, e, m) ==
    LET ee == e - bias(fmt)
        mm == Add(PyInt(1), TrueDiv(m, m_limit(fmt) + 1))
    IN  ToFloat(Mul(Mul(PyInt(SignOf(s)), Pow2(ee)), mm))

\* a decoder that gives the subnormals the exponent 0 - bias
_subnormal_val_unreserved(fmt, s, e, m) ==
    LET ee == 0 - bias(fmt)
        mm == TrueDiv(m, m_limit(fmt) + 1)
    IN  ToFloat(Mul(Mul(PyInt(SignOf(s)), Pow2(ee)), mm))

_subnormal_val(fmt, s, e, m) ==
    LET ee == 1 - bias(fmt)
        mm == TrueDiv(m, m_limit(fmt) + 1)
    IN  ToFloat(Mul(Mul(PyInt(SignOf(s)), Pow2(ee)), mm))

_is_subnormal(fmt, s, e, m) == e = 0

\* _is_nan: the assertion that the tag is recognised, and the answer
_is_nan_asserts(fmt) ==
    fmt.nan_encoding \in {NanEncodingIEEE, NanEncodingNAI, NanEncodingGAQ}

_is_nan(fmt, s, e, m) ==
    IF fmt.nan_encoding = NanEncodingIEEE THEN e = e_limit(fmt) /\ m # 0
    ELSE IF fmt.nan_encoding = NanEncodingNAI THEN e = e_limit(fmt) /\ m = m_limit(fmt)
    ELSE s = 1 /\ e = 0 /\ m = 0

\* _is_inf: the assertion that the tag is recognised, and the answer
_is_inf_asserts(fmt) ==
    fmt.inf_encoding \in {InfEncodingIEEE, NotApplicable}

_is_inf(fmt, s, e, m) ==
    IF fmt.inf_encoding = InfEncodingIEEE THEN e = e_limit(fmt) /\ m = 0
    ELSE FALSE

\* FloatInstance.value: an assertion of _is_nan is reached only when _is_inf
\* has answered False
value(fmt, s, e, m) ==
    IF ~_is_inf_asserts(fmt) THEN Raised("AssertionError")
    ELSE IF _is_inf(fmt, s, e, m) THEN Inf(SignOf(s))
    ELSE IF ~_is_nan_asserts(fmt) THEN Raised("AssertionError")
    ELSE IF _is_nan(fmt, s, e, m) THEN NaN
    ELSE IF _is_subnormal(fmt, s, e, m) THEN _subnormal_val(fmt, s, e, m)
    ELSE _normal_val(fmt, s, e, m)

---------------------------------------------------------------------------
(* int_format.py *)

TwosComplementFormat(width) ==
    [cls |-> "TwosComplementFormat", width |-> width, scale |-> 1]

ScaledTwosComplementFormat(width, scale) ==
    [cls |-> "ScaledTwosComplementFormat", width |-> width, scale |-> scale]

int_abs_min(fmt) ==
    IF fmt.cls = "ScaledTwosComplementFormat" THEN Mul(PyInt(1), PyInt(fmt.scale))
    ELSE PyInt(1)

int_abs_max(fmt) ==
    IF fmt.cls = "ScaledTwosComplementFormat"
    THEN Mul(PyFloat(2^(fmt.width - 1) - 1), PyInt(fmt.scale))
    ELSE PyFloat(2^(fmt.width - 1) - 1)

\* __post_init__
UintOk(fmt, uint) == 0 <= uint /\ uint < 2^fmt.width

\* a decoder that takes uint = abs_max for a negative number
int_value_strict(fmt, uint) ==
    IF NumLess(PyInt(uint), int_abs_max(fmt)) THEN PyInt(uint)
    ELSE PyFloat(uint - 2^fmt.width)

\* TwosComplementInstance.value: self.format.abs_max is the property of the
\* format's own class, the scaled one for a scaled format
int_value(fmt, uint) ==
    IF ~NumLess(int_abs_max(fmt), PyInt(uint)) THEN PyInt(uint)
    ELSE PyFloat(uint - 2^fmt.width)

---------------------------------------------------------------------------
(* The comparison methods of both instance classes, and Python's protocol. *)
(* An operand is a number or an instance [k |-> "instance", id, val]: id   *)
(* is the identity of the object, val its decoded value.                   *)

Instance(id, val) == [k |-> "instance", id |-> id, val |-> val]

\* float.__eq__ / int.__eq__ of the number x: NotImplemented for an operand
\* that is no number, and for an int asked about a float
NumberEq(x, other) ==
    IF ~IsNumber(other) THEN "NotImplemented"
    ELSE IF x.ty = "int" /\ other.ty = "float" THEN "NotImplemented"
    ELSE IF ValEq(x, other) THEN "True" ELSE "False"

\* float.__lt__ / int.__lt__, and __gt__ the same way
NumberLt(x, other) ==
    IF ~IsNumber(other) THEN "NotImplemented"
    ELSE IF x.ty = "int" /\ other.ty = "float" THEN "NotImplemented"
    ELSE IF ValLess(x, other) THEN "True" ELSE "False"

NumberGt(x, other) ==
    IF ~IsNumber(other) THEN "NotImplemented"
    ELSE IF x.ty = "int" /\ other.ty = "float" THEN "NotImplemented"
    ELSE IF ValLess(other, x) THEN "True" ELSE "False"

\* FloatInstance.__eq__ and TwosComplementInstance.__eq__
__eq__(self, other) == NumberEq(self.val, other)

\* FloatInstance.__lt__ and TwosComplementInstance.__lt__
__lt__(self, other) == NumberLt(self.val, other)

\* __gt__ as functools.total_ordering derives it from __lt__
__gt__(self, other) ==
    LET op_result == __lt__(self, other)
    IN  IF op_result = "NotImplemented" THEN "NotImplemented"
        ELSE IF op_result = "False" /\ __eq__(self, other) # "True" THEN "True"
        ELSE "False"

\* a == b for an instance a: a.__eq__(b), then the reflected b.__eq__(a),
\* then the identity of the objects
PyEq(a, b) ==
    LET first == __eq__(a, b)
        second == IF b.k = "instance" THEN __eq__(b, a) ELSE NumberEq(b, a)
    IN  IF first # "NotImplemented" THEN first
        ELSE IF second # "NotImplemented" THEN second
        ELSE IF b.k = "instance" /\ a.id = b.id THEN "True" ELSE "False"

\* a < b for an instance a: a.__lt__(b), then the reflected b.__gt__(a),
\* then TypeError
PyLt(a, b) ==
    LET first == __lt__(a, b)
        second == IF b.k = "instance" THEN __gt__(b, a) ELSE NumberGt(b, a)
    IN  IF first # "NotImplemented" THEN first
        ELSE IF second # "NotImplemented" THEN second
        ELSE "TypeError"

---------------------------------------------------------------------------
(* format_test.py: the reference values, as exact dyadic numbers.          *)
(* 0.00000005960464477539063 is the double 2^-24, 0.00006097555160522461   *)
(* is 1023 * 2^-24, 0.00006103515625 is 2^-14, 0.333251953125 is           *)
(* 1365 * 2^-12, 0.99951171875 is 2047 * 2^-11, 1.0009765625 is            *)
(* 1025 * 2^-10.  The literal -0 is the int 0.                             *)

Fp16Cases ==
    << [s |-> 0, e |-> 0,  m |-> 0,    val |-> PyInt(0)],
       [s |-> 0, e |-> 0,  m |-> 1,    val |-> Norm("float", 1, -24)],
       [s |-> 0, e |-> 0,  m |-> 1023, val |-> Norm("float", 1023, -24)],
       [s |-> 0, e |-> 1,  m |-> 0,    val |-> Norm("float", 1, -14)],
       [s |-> 0, e |-> 13, m |-> 341,  val |-> Norm("float", 1365, -12)],
       [s |-> 0, e |-> 14, m |-> 1023, val |-> Norm("float", 2047, -11)],
       [s |-> 0, e |-> 15, m |-> 0,    val |-> PyFloat(1)],
       [s |-> 0, e |-> 15, m |-> 1,    val |-> Norm("float", 1025, -10)],
       [s |-> 0, e |-> 30, m |-> 1023, val |-> PyInt(65504)],
       [s |-> 0, e |-> 31, m |-> 0,    val |-> Inf(1)],
       [s |-> 1, e |-> 0,  m |-> 0,    val |-> PyInt(0)],
       [s |-> 1, e |-> 16, m |-> 0,    val |-> PyInt(-2)],
       [s |-> 1, e |-> 31, m |-> 0,    val |-> Inf(-1)] >>

Int8Cases ==
    << [uint |-> 0,   val |-> PyInt(0)],
       [uint |-> 1,   val |-> PyInt(1)],
       [uint |-> 2,   val |-> PyInt(2)],
       [uint |-> 127, val |-> PyInt(127)],
       [uint |-> 128, val |-> PyInt(-128)],
       [uint |-> 255, val |-> PyInt(-1)] >>

\* test_val: assert fp_val == val
test_val(fp_val, val) ==
    IF PyEq(fp_val, val) = "True" THEN [k |-> "passed"] ELSE Raised("AssertionError")

---------------------------------------------------------------------------
(* histogram.py.                                                           *)
(*                                                                         *)
(* A log2 value is kept as the positive number v it is the logarithm of.   *)
(* A bin width is a rational <<p, q>> = p / q, and a bin edge is the       *)
(* integer numerator E of the edge E / q.  For v = sig * 2^exp with sig    *)
(* odd, q * log2(v) is an integer exactly when sig = 1, so with            *)
(* F = floor(q * log2(v)) = q * exp + floor(log2(sig^q)):                  *)
(*    log2(v) <  E / q   iff   F < E                                       *)
(*    log2(v) <= E / q   iff   F < E, or F = E and sig = 1                 *)
(* np.log2 is exact on the powers of two, the only values on an edge.      *)

RECURSIVE FloorLog2(_)
FloorLog2(n) == IF n <= 1 THEN 0 ELSE 1 + FloorLog2(n \div 2)

RECURSIVE IntPow(_, _)
IntPow(b, n) == IF n = 0 THEN 1 ELSE b * IntPow(b, n - 1)

CeilDiv(a, b) == -((-a) \div b)

FloorQLog2(v, q) == q * v.exp + FloorLog2(IntPow(v.sig, q))
LogLt(v, E, q) == FloorQLog2(v, q) < E
LogLe(v, E, q) == FloorQLog2(v, q) < E \/ (FloorQLog2(v, q) = E /\ v.sig = 1)

\* int(np.ceil(np.log2(x))) of a positive number
CeilLog2(x) == IF x.sig = 1 THEN x.exp ELSE x.exp + FloorLog2(x.sig) + 1

\* _is_valid_number
_is_valid_number(x) == x.k # "nan" /\ x.k # "inf"

\* the fields (e, m) that _log_pos_floats decodes: the subsampled normals
\* and all the subnormals but zero
mantissa_samples(fmt, sample_count) == sample_count \div 2^fmt.e_width

\* evaluated only for mantissa_samples # 0: Python raises ZeroDivisionError
step_size(fmt, sample_count) ==
    MaxOf(2^fmt.m_width \div mantissa_samples(fmt, sample_count), 1)

normal_fields(fmt, sample_count) ==
    { x \in (1 .. 2^fmt.e_width - 1) \X (0 .. 2^fmt.m_width - 1) :
        x[2] % step_size(fmt, sample_count) = 0 }

subnormal_fields(fmt) == {0} \X (1 .. 2^fmt.m_width - 1)

\* _log_pos_floats: the valid values, by the fields they are decoded from
_log_pos_floats(fmt, sample_count) ==
    LET fields == subnormal_fields(fmt) \cup normal_fields(fmt, sample_count)
        valid == { x \in fields : _is_valid_number(value(fmt, 0, x[1], x[2])) }
    IN  [x \in valid |-> value(fmt, 0, x[1], x[2])]

\* _log_pos_ints: the values by the uint they are decoded from
_log_pos_ints(fmt) ==
    [x \in { <<u>> : u \in 1 .. 2^(fmt.width - 1) - 1 } |->
        Mul(int_value(fmt, x[1]), PyInt(fmt.scale))]

\* np.arange(min_log_value, max_log_value + 1, bin_width), as numerators over q
arange(min_log_value, stop, bin_width) ==
    LET p == bin_width[1]
        q == bin_width[2]
        n == MaxOf(0, CeilDiv((stop - min_log_value) * q, p))
    IN  [i \in 1 .. n |-> q * min_log_value + (i - 1) * p]

\* the bin of np.histogram that the value v falls in, 0 for none: bin i is
\* [edge i, edge i+1), the last bin includes its upper edge, and a value below
\* the first edge or above the last is dropped.  The edges are p / q apart.
bin_index(v, bin_edges, bin_width) ==
    LET n == Len(bin_edges)
        p == bin_width[1]
        q == bin_width[2]
    IN  IF n < 2 THEN 0
        ELSE IF LogLt(v, bin_edges[1], q) THEN 0
        ELSE IF ~LogLe(v, bin_edges[n], q) THEN 0
        ELSE MinOf((FloorQLog2(v, q) - bin_edges[1]) \div p + 1, n - 1)

\* np.histogram(a, bin_edges): the number of values of a in each bin
np_histogram(a, bin_edges, bin_width) ==
    LET idx == [x \in DOMAIN a |-> bin_index(a[x], bin_edges, bin_width)]
    IN  [i \in 1 .. Len(bin_edges) - 1 |->
            Cardinality({ x \in DOMAIN a : idx[x] = i })]

sampling_factor(fmt, sample_count) ==
    MaxOf(2^(fmt.e_width + fmt.m_width) \div sample_count, 1)

\* a correction that tests the upper edge of the bin, bin_edges[1:]
correct_counts_upper(fmt, bin_edges, q, hist_counts, sample_count) ==
    [i \in DOMAIN hist_counts |->
        IF ~LogLe(abs_min_normal(fmt), bin_edges[i + 1], q) THEN hist_counts[i]
        ELSE hist_counts[i] * sampling_factor(fmt, sample_count)]

\* np.where(bin_edges[:-1] < np.log2(fmt.abs_min_normal), hist_counts,
\*          hist_counts * sampling_factor)
correct_counts(fmt, bin_edges, q, hist_counts, sample_count) ==
    [i \in DOMAIN hist_counts |->
        IF ~LogLe(abs_min_normal(fmt), bin_edges[i], q) THEN hist_counts[i]
        ELSE hist_counts[i] * sampling_factor(fmt, sample_count)]

\* np.log2(counts) under errstate(divide="ignore"): -inf for a count of 0
log2_counts(counts) ==
    [i \in DOMAIN counts |->
        IF counts[i] = 0 THEN Inf(-1) ELSE [k |-> "log2", of |-> counts[i]]]

DataFrame(bin_edges, q, raw, counts) ==
    [k |-> "DataFrame", q |-> q, edges |-> bin_edges, raw |-> raw,
     counts |-> counts, count |-> log2_counts(counts)]

\* _count_float_bins and the rest of log_histogram
float_histogram(fmt, bin_edges, bin_width, sample_count) ==
    IF mantissa_samples(fmt, sample_count) = 0 THEN Raised("ZeroDivisionError")
    ELSE LET q == bin_width[2]
             hist_counts ==
                 np_histogram(_log_pos_floats(fmt, sample_count), bin_edges, bin_width)
         IN  DataFrame(bin_edges, q, hist_counts,
                       correct_counts(fmt, bin_edges, q, hist_counts, sample_count))

\* _count_int_bins and the rest of log_histogram
int_histogram(fmt, bin_edges, bin_width) ==
    IF fmt.cls # "ScaledTwosComplementFormat" THEN Raised("AssertionError")
    ELSE LET hist_counts == np_histogram(_log_pos_ints(fmt), bin_edges, bin_width)
         IN  DataFrame(bin_edges, bin_width[2], hist_counts, hist_counts)

\* bin edges that stop at max_log_value
bin_edges_short(min_log_value, max_log_value, bin_width) ==
    arange(min_log_value, max_log_value, bin_width)

\* bin_edges = np.arange(min_log_value, max_log_value + 1, bin_width)
bin_edges_of(min_log_value, max_log_value, bin_width) ==
    arange(min_log_value, max_log_value + 1, bin_width)

\* isinstance(fmt, IEEE754BinaryFormat)
IsFloatFormat(fmt) ==
    fmt.cls \in {"IEEE754BinaryFormat", "GAQProposedFormat", "NAIProposedFormat"}

\* log_histogram: int() of the -inf that np.log2 gives for 0 raises
log_histogram(fmt, bin_width, sample_count) ==
    LET isfloat == IsFloatFormat(fmt)
        lo == IF isfloat THEN abs_min(fmt) ELSE int_abs_min(fmt)
        hi == IF isfloat THEN abs_max(fmt) ELSE int_abs_max(fmt)
    IN  IF lo.sig = 0 \/ hi.sig = 0 THEN Raised("OverflowError")
        ELSE LET min_log_value == CeilLog2(lo)
                 max_log_value == CeilLog2(hi)
                 bin_edges == bin_edges_of(min_log_value, max_log_value, bin_width)
             IN  IF isfloat THEN float_histogram(fmt, bin_edges, bin_width, sample_count)
                 ELSE int_histogram(fmt, bin_edges, bin_width)

---------------------------------------------------------------------------
(* The format objects and arguments the calls are made with. *)

EWidths == 1 .. MaxEWidth
MWidths == 1 .. MaxMWidth
Biases == -1 .. MaxBias

StandardFormats == { IEEE754BinaryFormat(ew, mw) : ew \in EWidths, mw \in MWidths }
NAIFormats == { NAIProposedFormat(ew, mw) : ew \in EWidths, mw \in MWidths }
GAQFormats ==
    { GAQProposedFormat(x[1], x[2], x[3]) : x \in EWidths \X MWidths \X Biases }
FloatFormats == StandardFormats \cup NAIFormats \cup GAQFormats

InfTags == {InfEncodingIEEE, NotApplicable, "unrecognised"}
NanTags == {NanEncodingIEEE, NanEncodingNAI, NanEncodingGAQ, "unrecognised"}
ZeroTags == {ZeroEncodingIEEE, ZeroEncodingGAQ, "unrecognised"}
TaggedFormats ==
    { TaggedFormat(x[1], x[2], x[3], x[4], x[5]) :
        x \in {1, 2} \X {1, 2} \X InfTags \X NanTags \X ZeroTags }

IntFormats ==
    { TwosComplementFormat(w) : w \in 1 .. MaxWidth }
    \cup { ScaledTwosComplementFormat(w, sc) : w \in 1 .. MaxWidth, sc \in 1 .. MaxScale }

---------------------------------------------------------------------------
(* The calls.  A behaviour is one call: the initial state holds the call   *)
(* about to be made (the operation, the format object and the arguments),  *)
(* and the action of that operation runs it and records what it returned   *)
(* or raised.                                                              *)

None == [k |-> "none"]
Pending == ret = None

\* the comparisons are tried on the formats of at most CmpBits field bits
CmpBits == 3

CompareOps == {"==", "<"}

\* histogram.py:68-69, the defaults of log_histogram
DefaultBinWidth == <<1, 4>>
DefaultSampleCount == 32768

BinWidths == {DefaultBinWidth, <<1, 2>>, <<1, 1>>, <<2, 1>>}

\* the sample counts tried on a format: too few for one mantissa per
\* exponent, the strides in between, the whole format, and the default
SampleCounts(fmt) ==
    IF IsFloatFormat(fmt)
    THEN {1, 6, 2^fmt.e_width, 2^(fmt.e_width + fmt.m_width) \div 2,
          2^(fmt.e_width + fmt.m_width), DefaultSampleCount}
    ELSE {1, DefaultSampleCount}

FloatFields(fmt) == {0, 1} \X (0 .. e_limit(fmt)) \X (0 .. m_limit(fmt))
UintFields(fmt) == { <<u>> : u \in 0 .. 2^fmt.width - 1 }

\* a FloatInstance.value call on a format of F; fields one beyond the valid
\* range are included: the constructor rejects them
FloatValueCall(F) ==
    \E fmt \in F :
      \E x \in {0, 1} \X (0 .. e_limit(fmt) + 1) \X (0 .. m_limit(fmt) + 1) :
        call = [op |-> "FloatInstance.value", fmt |-> fmt, s |-> x[1], e |-> x[2], m |-> x[3]]

IntValueCall ==
    \E fmt \in IntFormats :
      \E u \in 0 .. 2^fmt.width :
        call = [op |-> "TwosComplementInstance.value", fmt |-> fmt, uint |-> u]

TestCall ==
    \/ \E i \in DOMAIN Fp16Cases : call = [op |-> "test_fp16_definition", case |-> i]
    \/ \E i \in DOMAIN Int8Cases : call = [op |-> "test_int8_definition", case |-> i]

\* A op B of two instances of one format; same = TRUE compares the object A
\* with itself
FloatCompareCall ==
    \E fmt \in FloatFormats, op \in CompareOps, same \in BOOLEAN :
      \E a \in FloatFields(fmt), b \in FloatFields(fmt) :
        /\ fmt.e_width + fmt.m_width <= CmpBits
        /\ same => a = b
        /\ call = [op |-> op, cls |-> "FloatInstance", fmt |-> fmt, a |-> a, b |-> b,
                   same |-> same]

IntCompareCall ==
    \E fmt \in IntFormats, op \in CompareOps, same \in BOOLEAN :
      \E a \in UintFields(fmt), b \in UintFields(fmt) :
        /\ same => a = b
        /\ call = [op |-> op, cls |-> "TwosComplementInstance", fmt |-> fmt, a |-> a,
                   b |-> b, same |-> same]

BoundsCall == \E fmt \in FloatFormats \cup IntFormats : call = [op |-> "bounds", fmt |-> fmt]

HistogramCall ==
    \E fmt \in FloatFormats \cup IntFormats, bin_width \in BinWidths :
      \E sample_count \in SampleCounts(fmt) :
        call = [op |-> "log_histogram", fmt |-> fmt, bin_width |-> bin_width,
                sample_count |-> sample_count]

InitValue == Pending /\ (FloatValueCall(FloatFormats) \/ IntValueCall \/ TestCall)
InitTags == Pending /\ FloatValueCall(TaggedFormats)
InitCompare == Pending /\ (FloatCompareCall \/ IntCompareCall)
InitBounds == Pending /\ BoundsCall
InitHistogram == Pending /\ HistogramCall

\* FloatInstance(fmt, s, e, m).value
FloatValue ==
    /\ Pending /\ call.op = "FloatInstance.value"
    /\ ret' = IF FloatFieldsOk(call.fmt, call.s, call.e, call.m)
              THEN value(call.fmt, call.s, call.e, call.m)
              ELSE Raised("AssertionError")
    /\ UNCHANGED call

\* TwosComplementInstance(fmt, uint).value
IntValue ==
    /\ Pending /\ call.op = "TwosComplementInstance.value"
    /\ ret' = IF UintOk(call.fmt, call.uint) THEN int_value(call.fmt, call.uint)
              ELSE Raised("AssertionError")
    /\ UNCHANGED call

\* one test_val line of test_fp16_definition
TestFp16 ==
    /\ Pending /\ call.op = "test_fp16_definition"
    /\ LET c == Fp16Cases[call.case]
           fp16 == Instance(1, value(IEEE754BinaryFormat(5, 10), c.s, c.e, c.m))
       IN  ret' = test_val(fp16, c.val)
    /\ UNCHANGED call

\* one test_val line of test_int8_definition
TestInt8 ==
    /\ Pending /\ call.op = "test_int8_definition"
    /\ LET c == Int8Cases[call.case]
           int8 == Instance(1, int_value(TwosComplementFormat(8), c.uint))
       IN  ret' = test_val(int8, c.val)
    /\ UNCHANGED call

\* the decoded value of an operand of a comparison: the fields <<s, e, m>> of
\* a FloatInstance, the field <<uint>> of a TwosComplementInstance
OperandValue(c, x) ==
    IF c.cls = "FloatInstance" THEN value(c.fmt, x[1], x[2], x[3])
    ELSE int_value(c.fmt, x[1])

\* A == B of two instances of one format
CompareEq ==
    /\ Pending /\ call.op = "=="
    /\ LET A == Instance(1, OperandValue(call, call.a))
           B == Instance(IF call.same THEN 1 ELSE 2, OperandValue(call, call.b))
       IN  ret' = [k |-> PyEq(A, B)]
    /\ UNCHANGED call

\* A < B of two instances of one format
CompareLt ==
    /\ Pending /\ call.op = "<"
    /\ LET A == Instance(1, OperandValue(call, call.a))
           B == Instance(IF call.same THEN 1 ELSE 2, OperandValue(call, call.b))
       IN  ret' = [k |-> PyLt(A, B)]
    /\ UNCHANGED call

\* the derived properties of a float format
FloatBounds ==
    /\ Pending /\ call.op = "bounds" /\ IsFloatFormat(call.fmt)
    /\ ret' = [k |-> "bounds", abs_min |-> abs_min(call.fmt),
               abs_min_normal |-> abs_min_normal(call.fmt), abs_max |-> abs_max(call.fmt)]
    /\ UNCHANGED call

\* the derived properties of an integer format
IntBounds ==
    /\ Pending /\ call.op = "bounds" /\ ~IsFloatFormat(call.fmt)
    /\ ret' = [k |-> "bounds", abs_min |-> int_abs_min(call.fmt),
               abs_max |-> int_abs_max(call.fmt)]
    /\ UNCHANGED call

\* log_histogram(fmt, bin_width, sample_count)
LogHistogram ==
    /\ Pending /\ call.op = "log_histogram"
    /\ ret' = log_histogram(call.fmt, call.bin_width, call.sample_count)
    /\ UNCHANGED call

---------------------------------------------------------------------------
(* The specifications: the whole library, and each group of calls. *)

NextValue == FloatValue \/ IntValue \/ TestFp16 \/ TestInt8
NextCompare == CompareEq \/ CompareLt
NextBounds == FloatBounds \/ IntBounds

Init == InitValue \/ InitTags \/ InitCompare \/ InitBounds \/ InitHistogram
Next == NextValue \/ NextCompare \/ NextBounds \/ LogHistogram

Spec == Init /\ [][Next]_vars
SpecValue == InitValue /\ [][NextValue]_vars
SpecTags == InitTags /\ [][FloatValue]_vars
SpecCompare == InitCompare /\ [][NextCompare]_vars
SpecBounds == InitBounds /\ [][NextBounds]_vars
SpecHistogram == InitHistogram /\ [][LogHistogram]_vars

---------------------------------------------------------------------------
(* The claims. *)

Done(op) == ~Pending /\ call.op = op

\* the fields of a finished FloatInstance.value call were valid
DecodedFloat ==
    /\ Done("FloatInstance.value")
    /\ FloatFieldsOk(call.fmt, call.s, call.e, call.m)

\* the reserved patterns of the three variants, as the specification lists them
AllOnes(width) == 2^width - 1

InfPattern(fmt, s, e, m) ==
    /\ fmt.cls = "IEEE754BinaryFormat"
    /\ e = AllOnes(fmt.e_width) /\ m = 0

NanPattern(fmt, s, e, m) ==
    \/ fmt.cls = "IEEE754BinaryFormat" /\ e = AllOnes(fmt.e_width) /\ m # 0
    \/ fmt.cls = "NAIProposedFormat" /\ e = AllOnes(fmt.e_width) /\ m = AllOnes(fmt.m_width)
    \/ fmt.cls = "GAQProposedFormat" /\ s = 1 /\ e = 0 /\ m = 0

SpecBias(fmt) ==
    IF fmt.cls = "GAQProposedFormat" THEN fmt.custom_bias ELSE 2^(fmt.e_width - 1) - 1

\* x = n * 2^p, for a finite number x and integers n, p; sh is large enough
\* to make both exponents natural numbers
EqualsScaled(x, n, p) ==
    LET sh == MaxOf(0, MaxOf(-x.exp, -p))
    IN  x.k = "num" /\ x.sig * 2^(x.exp + sh) = n * 2^(p + sh)

\* C1: for every variant and every valid (s, e, m), FloatInstance.value is
\* +/-infinity by sign on the Inf pattern (never for the tag "N/A"), else NaN
\* on the NaN pattern, else (-1)^s * 2^(1-bias) * m / 2^m_width for e = 0,
\* else (-1)^s * 2^(e-bias) * (1 + m / 2^m_width); and every reference value
\* of the FP16 test is decoded.
C1_DecodePriority ==
    /\ DecodedFloat =>
         LET fmt == call.fmt
             s == call.s
             e == call.e
             m == call.m
             sign == IF s = 0 THEN 1 ELSE -1
         IN  /\ fmt.inf_encoding = NotApplicable => ret.k # "inf"
             /\ IF InfPattern(fmt, s, e, m) THEN ret.k = "inf" /\ ret.sig = sign
                ELSE IF NanPattern(fmt, s, e, m) THEN ret.k = "nan"
                ELSE IF e = 0
                     THEN EqualsScaled(ret, sign * m, 1 - SpecBias(fmt) - fmt.m_width)
                ELSE EqualsScaled(ret, sign * (2^fmt.m_width + m),
                                  e - SpecBias(fmt) - fmt.m_width)
    /\ Done("test_fp16_definition") => ret.k = "passed"

\* a negative infinity was decoded from the Inf pattern of a standard format
C1_Witness ==
    /\ DecodedFloat
    /\ InfPattern(call.fmt, call.s, call.e, call.m) /\ call.s = 1
    /\ ret.k = "inf"

DecodedInt ==
    /\ Done("TwosComplementInstance.value")
    /\ call.fmt.cls = "TwosComplementFormat"
    /\ UintOk(call.fmt, call.uint)

\* C2: for an unscaled format of width w and 0 <= uint < 2^w the value is
\* uint when uint <= 2^(w-1) - 1 and uint - 2^w otherwise, an integer of
\* [-2^(w-1), 2^(w-1) - 1] that no other uint decodes to; the INT8 test passes.
C2_TwosComplementValue ==
    /\ DecodedInt =>
         LET w == call.fmt.width
             expected == IF call.uint <= 2^(w - 1) - 1 THEN call.uint
                         ELSE call.uint - 2^w
         IN  /\ EqualsScaled(ret, expected, 0)
             /\ -(2^(w - 1)) <= expected /\ expected <= 2^(w - 1) - 1
             /\ \A other \in 0 .. 2^w - 1 :
                  ValEq(int_value(call.fmt, other), ret) => other = call.uint
    /\ Done("test_int8_definition") => ret.k = "passed"

\* the largest positive uint and the first negative one were decoded
C2_Witness ==
    /\ DecodedInt
    /\ call.fmt.width = 3 /\ call.uint = 4
    /\ EqualsScaled(ret, -4, 0)

\* the two operands of a finished comparison decode to numbers other than NaN
ComparedNumbers ==
    /\ ~Pending /\ call.op \in CompareOps
    /\ OperandValue(call, call.a).k # "nan"
    /\ OperandValue(call, call.b).k # "nan"

\* C3: for two instances of one format whose values are not NaN, A == B is
\* True exactly when the values are equal, A < B is True exactly when
\* value(A) < value(B), and the result is always a boolean.
C3_CompareByValue ==
    ComparedNumbers =>
        LET va == OperandValue(call, call.a)
            vb == OperandValue(call, call.b)
        IN  /\ ret.k \in {"True", "False"}
            /\ call.op = "==" => (ret.k = "True" <=> ValEq(va, vb))
            /\ call.op = "<" => (ret.k = "True" <=> ValLess(va, vb))

\* a finished bounds call of one of the three float variants
FloatBoundsDone == Done("bounds") /\ IsFloatFormat(call.fmt)

Positive(x) == x.k = "num" /\ x.sig > 0
LessEq(a, b) == ~ValLess(b, a)

\* C4: for every float format with e_width >= 1 and m_width >= 1,
\* 0 < abs_min <= abs_min_normal <= abs_max.
C4_RangeInvariant ==
    FloatBoundsDone =>
        /\ Positive(ret.abs_min)
        /\ LessEq(ret.abs_min, ret.abs_min_normal)
        /\ LessEq(ret.abs_min_normal, ret.abs_max)

UnrecognisedTag(fmt) ==
    \/ fmt.inf_encoding \notin {InfEncodingIEEE, NotApplicable}
    \/ fmt.nan_encoding \notin {NanEncodingIEEE, NanEncodingNAI, NanEncodingGAQ}
    \/ fmt.zero_encoding \notin {ZeroEncodingIEEE, ZeroEncodingGAQ}

\* C5: when one of the three encoding tags of the format is outside the
\* recognised set, FloatInstance.value raises for every valid (s, e, m).
C5_UnrecognisedTagRaises ==
    DecodedFloat /\ UnrecognisedTag(call.fmt) => ret.k = "AssertionError"

\* the finite values decoded from the valid instances with s = 0
PositiveFields(fmt) == (0 .. e_limit(fmt)) \X (0 .. m_limit(fmt))
Decoded(fmt, x) == value(fmt, 0, x[1], x[2])

\* C10: abs_max is the largest finite value decoded with s = 0, abs_min the
\* smallest strictly positive one (that of e = 0, m = 1), and abs_min_normal
\* the value of (s = 0, e = 1, m = 0).
C10_BoundsAgreeWithDecoder ==
    FloatBoundsDone =>
        LET fmt == call.fmt
            finite == { x \in PositiveFields(fmt) : Decoded(fmt, x).k = "num" }
            positive == { x \in finite : Decoded(fmt, x).sig > 0 }
        IN  /\ \E x \in finite : ValEq(Decoded(fmt, x), ret.abs_max)
            /\ \A x \in finite : LessEq(Decoded(fmt, x), ret.abs_max)
            /\ ValEq(Decoded(fmt, <<0, 1>>), ret.abs_min)
            /\ \A x \in positive : LessEq(ret.abs_min, Decoded(fmt, x))
            /\ ValEq(Decoded(fmt, <<1, 0>>), ret.abs_min_normal)

\* a finished log_histogram call on a float format / a scaled integer format
FloatHistogramDone == Done("log_histogram") /\ IsFloatFormat(call.fmt)
IntHistogramDone ==
    Done("log_histogram") /\ call.fmt.cls = "ScaledTwosComplementFormat"

RECURSIVE SumTo(_, _)
SumTo(f, n) == IF n = 0 THEN 0 ELSE f[n] + SumTo(f, n - 1)
Total(f) == SumTo(f, Len(f))

\* C6: log_histogram raises nothing for a float format or a scaled integer
\* format, any bin_width > 0 and any sample_count >= 1, and reports -infinity
\* as the count of every bin that received no value.
C6_HistogramNeverRaises ==
    FloatHistogramDone \/ IntHistogramDone =>
        /\ ret.k = "DataFrame"
        /\ \A i \in DOMAIN ret.raw : ret.raw[i] = 0 => ret.count[i] = Inf(-1)

\* the positive finite values of a float format, by their fields
PositiveFinite(fmt) ==
    { x \in PositiveFields(fmt) : Decoded(fmt, x).k = "num" /\ Decoded(fmt, x).sig > 0 }

\* C7: with bin width 2^-2 and sample_count >= 2^(e_width + m_width) the
\* corrected counts of a float format sum to the number of its positive finite
\* values, none of which lies outside
\* [ceil(log2(abs_min)), ceil(log2(abs_max))], the range the bins start at.
C7_HistogramCoverage ==
    /\ FloatHistogramDone
    /\ call.bin_width = <<1, 4>>
    /\ call.sample_count >= 2^(call.fmt.e_width + call.fmt.m_width)
    => /\ ret.k = "DataFrame"
       /\ Total(ret.counts) = Cardinality(PositiveFinite(call.fmt))
       /\ ret.edges[1] = 4 * CeilLog2(abs_min(call.fmt))
       /\ \A x \in PositiveFinite(call.fmt) :
            /\ ~LogLt(Decoded(call.fmt, x), 4 * CeilLog2(abs_min(call.fmt)), 4)
            /\ LogLe(Decoded(call.fmt, x), 4 * CeilLog2(abs_max(call.fmt)), 4)

\* the 30 positive finite values of the NAI format E2M3 were all counted
C7_Witness ==
    /\ FloatHistogramDone
    /\ call.bin_width = <<1, 4>>
    /\ call.fmt = NAIProposedFormat(2, 3) /\ call.sample_count = 32
    /\ ret.k = "DataFrame" /\ Total(ret.counts) = 30

\* C8: for a scaled integer format of width >= 2 (default bin width) every
\* positive value uint * scale, uint in [1, 2^(width-1) - 1], is counted in
\* exactly one bin: the raw counts sum to 2^(width-1) - 1 and are not corrected.
C8_IntHistogramExact ==
    /\ IntHistogramDone
    /\ call.fmt.width >= 2
    /\ call.bin_width = DefaultBinWidth
    => /\ ret.k = "DataFrame"
       /\ ret.counts = ret.raw
       /\ Total(ret.raw) = 2^(call.fmt.width - 1) - 1

\* max(floor(2^(e_width + m_width) / sample_count), 1)
SpecFactor(fmt, sample_count) ==
    LET f == 2^(fmt.e_width + fmt.m_width) \div sample_count
    IN  IF f >= 1 THEN f ELSE 1

\* the edge E / q lies at or above log2(abs_min_normal) = 1 - bias
AtOrAboveMinNormal(fmt, E, q) == E >= q * (1 - SpecBias(fmt))

\* C9 as stated: a bin's raw count is multiplied by the sampling factor
\* exactly when its UPPER edge lies at or above log2(abs_min_normal).
C9_CorrectionByUpperEdge ==
    FloatHistogramDone /\ ret.k = "DataFrame" =>
        \A i \in DOMAIN ret.raw :
            ret.counts[i] =
                IF AtOrAboveMinNormal(call.fmt, ret.edges[i + 1], ret.q)
                THEN ret.raw[i] * SpecFactor(call.fmt, call.sample_count)
                ELSE ret.raw[i]

\* C9 as amended: a bin's raw count is multiplied by the sampling factor
\* exactly when its LOWER edge lies at or above log2(abs_min_normal); every
\* other bin keeps its raw count, and no subnormal value lies in a bin that is
\* rescaled.
C9_CorrectionByLowerEdge ==
    FloatHistogramDone /\ ret.k = "DataFrame" =>
        \A i \in DOMAIN ret.raw :
            IF AtOrAboveMinNormal(call.fmt, ret.edges[i], ret.q)
            THEN /\ ret.counts[i] = ret.raw[i] * SpecFactor(call.fmt, call.sample_count)
                 /\ \A x \in subnormal_fields(call.fmt) :
                      LogLt(Decoded(call.fmt, x), ret.edges[i], ret.q)
            ELSE ret.counts[i] = ret.raw[i]

\* a bin that ends at log2(abs_min_normal) or above it and starts below it
\* holds values, the sampling factor is above 1, and the bin kept its raw count
C9_Witness ==
    /\ FloatHistogramDone /\ ret.k = "DataFrame"
    /\ SpecFactor(call.fmt, call.sample_count) > 1
    /\ \E i \in DOMAIN ret.raw :
         /\ AtOrAboveMinNormal(call.fmt, ret.edges[i + 1], ret.q)
         /\ ~AtOrAboveMinNormal(call.fmt, ret.edges[i], ret.q)
         /\ ret.raw[i] > 0
         /\ ret.counts[i] = ret.raw[i]

\* a finished TwosComplementInstance.value call on a scaled format, valid uint
DecodedScaledInt ==
    /\ Done("TwosComplementInstance.value")
    /\ call.fmt.cls = "ScaledTwosComplementFormat"
    /\ UintOk(call.fmt, call.uint)

\* C11: for a ScaledTwosComplementFormat(width, scale), scale >= 1, and
\* 0 <= uint < 2^width the instance's value is the unscaled two's-complement
\* integer of uint (uint when uint <= 2^(width-1) - 1, uint - 2^width
\* otherwise), the value the instance has under TwosComplementFormat(width);
\* the scale shows only in abs_min = scale and abs_max = (2^(width-1) - 1) * scale.
C11_ScaleIndependentValue ==
    DecodedScaledInt =>
        LET w == call.fmt.width
            expected == IF call.uint <= 2^(w - 1) - 1 THEN call.uint
                        ELSE call.uint - 2^w
        IN  /\ EqualsScaled(ret, expected, 0)
            /\ ValEq(ret, int_value(TwosComplementFormat(w), call.uint))
            /\ EqualsScaled(int_abs_min(call.fmt), call.fmt.scale, 0)
            /\ EqualsScaled(int_abs_max(call.fmt), (2^(w - 1) - 1) * call.fmt.scale, 0)

\* max(floor(2^m_width / floor(sample_count / 2^e_width)), 1)
SpecStride(fmt, sample_count) ==
    LET st == 2^fmt.m_width \div (sample_count \div 2^fmt.e_width)
    IN  IF st >= 1 THEN st ELSE 1

\* the mantissas that _log_pos_floats samples for the normal exponent e
SampledMantissas(fmt, sample_count, e) ==
    { x[2] : x \in { y \in normal_fields(fmt, sample_count) : y[1] = e } }

\* C12: for every float format and every sample_count >= 2^e_width the
\* sampling factor applied to the counts of the normal-range bins equals the
\* mantissa stride used to subsample the normals, the stride divides
\* 2^m_width, and so each normal exponent contributes exactly
\* 2^m_width / stride samples, of a corrected weight of exactly 2^m_width.
C12_FactorMatchesStride ==
    /\ FloatHistogramDone
    /\ call.sample_count >= 2^call.fmt.e_width
    /\ ret.k = "DataFrame"
    => LET fmt == call.fmt
           step == step_size(fmt, call.sample_count)
           factor == sampling_factor(fmt, call.sample_count)
       IN  /\ step = SpecStride(fmt, call.sample_count)
           /\ factor = SpecFactor(fmt, call.sample_count)
           /\ factor = step
           /\ 2^fmt.m_width % step = 0
           /\ \A i \in DOMAIN ret.raw :
                AtOrAboveMinNormal(fmt, ret.edges[i], ret.q)
                => ret.counts[i] = ret.raw[i] * step
           /\ \A e \in 1 .. 2^fmt.e_width - 1 :
                LET n == Cardinality(SampledMantissas(fmt, call.sample_count, e))
                IN  /\ n * step = 2^fmt.m_width
                    /\ n * factor = 2^fmt.m_width

=============================================================================
